---- MODULE Spec2Model ----
\* A model of the quandl client library: the request builder and its date
\* validation (src/src/quandl_request.rs), URL serialization, the data-query
\* executor and the code-listing executor (src/src/requests/dataset_list_call.rs).
\*
\* Strings are sequences of one-character strings, so that formatting, parsing
\* and splitting are computed rather than assumed.  Option<T> is a sequence of
\* length 0 (None) or 1 (Some(v)).  A NaiveDate is the tuple <<year, month, day>>.
EXTENDS Integers, Sequences, FiniteSets, TLC

VARIABLES
    api_key,    \* Quandl.api_key : Option<String>
    req,        \* the QuandlRequest under construction
    last,       \* what the most recent setter call returned: Ok or the Error
    pc,         \* where the caller is: "build", "dropped", "uri", "panic", "sent", "done"
    query,      \* get_uri's local Vec<(&str, String)>
    uri,        \* the hyper::Uri returned by get_uri : Option<record>
    gets,       \* number of HTTP GETs issued by run
    response,   \* the HTTP response received by run : Option<record>
    result,     \* the value run returned : Option<record>
    list_req,   \* the DatasetListCall : its database_code
    archive,    \* the body the listing run received : Option<record>
    called      \* per optional field, the value of its last successful setter call

vars ==
    <<api_key, req, last, pc, query, uri, gets, response, result, list_req, archive,
      called>>

-----------------------------------------------------------------------------
\* Option<T>

None == <<>>

Some(v) == <<v>>

IsSome(o) == Len(o) = 1

Unwrap(o) == o[1]

-----------------------------------------------------------------------------
\* Strings

Digits == <<"0","1","2","3","4","5","6","7","8","9">>

DigitChar(n) == Digits[n + 1]

IsDigit(c) == \E i \in 1..10 : Digits[i] = c

DigitValue(c) == (CHOOSE i \in 1..10 : Digits[i] = c) - 1

\* u64::to_string : decimal, no padding
RECURSIVE U64ToString(_)
U64ToString(n) ==
    IF n < 10 THEN <<DigitChar(n)>>
    ELSE Append(U64ToString(n \div 10), DigitChar(n % 10))

\* the number written by a non-empty string of digits
RECURSIVE ParseDigits(_)
ParseDigits(s) ==
    IF Len(s) = 0 THEN 0
    ELSE 10 * ParseDigits(SubSeq(s, 1, Len(s) - 1)) + DigitValue(s[Len(s)])

AllDigits(s) == Len(s) > 0 /\ \A i \in 1..Len(s) : IsDigit(s[i])

\* a number written in at least `width` digits, zero padded on the left
RECURSIVE ZeroPad(_, _)
ZeroPad(s, width) == IF Len(s) >= width THEN s ELSE ZeroPad(<<"0">> \o s, width)

\* position of the first occurrence of character c in s, 0 when there is none
FindChar(s, c) ==
    IF \E i \in 1..Len(s) : s[i] = c
    THEN CHOOSE i \in 1..Len(s) : s[i] = c /\ \A j \in 1..(i - 1) : s[j] # c
    ELSE 0

\* str::split(c) : the pieces of s between occurrences of c (never empty as a list)
RECURSIVE Split(_, _)
Split(s, c) ==
    LET i == FindChar(s, c) IN
    IF i = 0 THEN <<s>>
    ELSE <<SubSeq(s, 1, i - 1)>> \o Split(SubSeq(s, i + 1, Len(s)), c)

\* [String]::join(sep)
RECURSIVE Join(_, _)
Join(parts, sep) ==
    IF Len(parts) = 0 THEN <<>>
    ELSE IF Len(parts) = 1 THEN parts[1]
    ELSE parts[1] \o sep \o Join(Tail(parts), sep)

\* whether sub occurs in s as a contiguous substring
Contains(s, sub) ==
    \E i \in 1..(Len(s) - Len(sub) + 1) : SubSeq(s, i, i + Len(sub) - 1) = sub

-----------------------------------------------------------------------------
\* Calendar dates (chrono::NaiveDate)

IsLeap(y) == (y % 4 = 0 /\ y % 100 # 0) \/ y % 400 = 0

DaysInMonth(y, m) ==
    IF m = 2 THEN (IF IsLeap(y) THEN 29 ELSE 28)
    ELSE IF m \in {4, 6, 9, 11} THEN 30 ELSE 31

ValidYmd(y, m, d) == m \in 1..12 /\ d \in 1..DaysInMonth(y, m)

\* NaiveDate's ordering is chronological
DateGT(a, b) ==
    \/ a[1] > b[1]
    \/ a[1] = b[1] /\ a[2] > b[2]
    \/ a[1] = b[1] /\ a[2] = b[2] /\ a[3] > b[3]

\* Display for NaiveDate : yyyy-mm-dd
DateToString(d) ==
    ZeroPad(U64ToString(d[1]), 4) \o <<"-">> \o ZeroPad(U64ToString(d[2]), 2)
        \o <<"-">> \o ZeroPad(U64ToString(d[3]), 2)

\* str::parse::<NaiveDate>() : Some(date), or None for a chrono ParseError.
\* Three '-' separated numbers (year of up to 4 digits, month and day of up to
\* 2) that name a day of the calendar.
ParseDate(s) ==
    LET p == Split(s, "-") IN
    IF Len(p) = 3 /\ AllDigits(p[1]) /\ AllDigits(p[2]) /\ AllDigits(p[3])
       /\ Len(p[1]) <= 4 /\ Len(p[2]) <= 2 /\ Len(p[3]) <= 2
       /\ ValidYmd(ParseDigits(p[1]), ParseDigits(p[2]), ParseDigits(p[3]))
    THEN Some(<<ParseDigits(p[1]), ParseDigits(p[2]), ParseDigits(p[3])>>)
    ELSE None

-----------------------------------------------------------------------------
\* Inputs the callers supply

\* the largest month of the calendar dates the callers pass (all in 2015, day 10)
MaxMonth == 3

NaiveDates == {<<2015, m, 10>> : m \in 2..MaxMonth}

\* date strings: every date above in yyyy-mm-dd form, a day that is not in the
\* calendar (2015-02-30) and a string that is no date at all (bogus)
DateStrings ==
    {DateToString(d) : d \in NaiveDates}
        \cup {<<"2","0","1","5","-","0","2","-","3","0">>, <<"b","o","g","u","s">>}

\* what start_date / end_date are given: a &str or a NaiveDate
DateInputs ==
    {[type |-> "str", str |-> s, date |-> None] : s \in DateStrings}
        \cup {[type |-> "naive", str |-> <<>>, date |-> Some(d)] : d \in NaiveDates}

LimitValues == {10, 12}

RowsValues == {1}

ColumnIndexValues == {25}

Orders == {"Asc", "Desc"}

Collapses == {"Daily", "Weekly", "Monthly", "Quarterly", "Annual"}

Transforms == {"Diff", "Rdiff", "Cumul", "Normalize"}

WIKI == <<"W","I","K","I">>

AAPL == <<"A","A","P","L">>

\* api keys: none, one holding query syntax (k&rows=5), one holding a
\* character that is illegal in a URL (a b)
ApiKeys == {None, Some(<<"k","&","r","o","w","s","=","5">>), Some(<<"a"," ","b">>)}

-----------------------------------------------------------------------------
\* Results: Ok, or an Error of one of the kinds of error.rs with its message

OkRes == [kind |-> "Ok", msg |-> <<>>]

Err(kind, msg) == [kind |-> kind, msg |-> msg]

-----------------------------------------------------------------------------
\* The request and its setters

\* the optional fields of a QuandlRequest
OptionalFields ==
    {"limit", "rows", "column_index", "start_date", "end_date",
     "order", "collapse", "transform"}

\* QuandlRequest::default with the two codes filled in by the factory
new_request(database_code, dataset_code) ==
    [database_code |-> database_code, dataset_code |-> dataset_code,
     limit |-> None, rows |-> None, column_index |-> None,
     start_date |-> None, end_date |-> None,
     order |-> None, collapse |-> None, transform |-> None]

\* a validate_date that also rejects start_date = end_date (>= for >)
validate_date_ge(start, end) ==
    IF IsSome(start) /\ IsSome(end) /\ ~DateGT(Unwrap(end), Unwrap(start))
    THEN Err("Date", <<>>)
    ELSE OkRes

\* fn validate_date: fails when both are present and start_date > end_date.
\* (In messages the character ' stands for the backquote of the source.)
validate_date(start, end) ==
    IF IsSome(start) /\ IsSome(end) /\ DateGT(Unwrap(start), Unwrap(end))
    THEN Err("Date",
             <<"s","t","a","r","t"," ","d","a","t","e"," ","'">>
                 \o DateToString(Unwrap(start))
                 \o <<"'"," ","i","s"," ","a","f","t","e","r"," ","e","n","d"," ","d","a","t","e"," ","'">>
                 \o DateToString(Unwrap(end)) \o <<"'">>)
    ELSE OkRes

\* a set_start_date that stores the date first and validates it afterwards
NaiveSetStartDateStoresFirst(d, r) ==
    [req |-> [r EXCEPT !.start_date = Some(d)], res |-> validate_date(Some(d), r.end_date)]

\* a set_start_date that stores the date without validating it against end_date
NaiveSetStartDateUnchecked(d, r) ==
    [req |-> [r EXCEPT !.start_date = Some(d)], res |-> OkRes]

\* impl DateInput for NaiveDate: the request after the call and the call's result
NaiveSetStartDate(d, r) ==
    LET v == validate_date(Some(d), r.end_date) IN
    IF v.kind # "Ok" THEN [req |-> r, res |-> v]
    ELSE [req |-> [r EXCEPT !.start_date = Some(d)], res |-> OkRes]

\* a set_end_date that, instead of failing, moves a later start_date to the new date
NaiveSetEndDateMovesStart(d, r) ==
    LET v == validate_date(r.start_date, Some(d)) IN
    IF v.kind # "Ok"
    THEN [req |-> [r EXCEPT !.start_date = Some(d), !.end_date = Some(d)], res |-> OkRes]
    ELSE [req |-> [r EXCEPT !.end_date = Some(d)], res |-> OkRes]

\* a set_end_date that also refuses to move end_date before its old value
NaiveSetEndDateNotEarlier(d, r) ==
    LET v == validate_date(r.start_date, Some(d)) IN
    IF v.kind # "Ok" THEN [req |-> r, res |-> v]
    ELSE IF IsSome(r.end_date) /\ DateGT(Unwrap(r.end_date), d)
    THEN [req |-> r, res |-> Err("Date", <<>>)]
    ELSE [req |-> [r EXCEPT !.end_date = Some(d)], res |-> OkRes]

NaiveSetEndDate(d, r) ==
    LET v == validate_date(r.start_date, Some(d)) IN
    IF v.kind # "Ok" THEN [req |-> r, res |-> v]
    ELSE [req |-> [r EXCEPT !.end_date = Some(d)], res |-> OkRes]

\* a set_start_date on a string that reports an unparsable string as a
\* date-range error when the end date is set
StrSetStartDateRangeFirst(s, r) ==
    LET p == ParseDate(s) IN
    IF p = None
    THEN [req |-> r, res |-> IF IsSome(r.end_date) THEN Err("Date", <<>>) ELSE Err("Chrono", <<>>)]
    ELSE NaiveSetStartDate(Unwrap(p), r)

\* impl DateInput for str: parse, then the NaiveDate implementation
StrSetStartDate(s, r) ==
    LET p == ParseDate(s) IN
    IF p = None THEN [req |-> r, res |-> Err("Chrono", <<>>)]
    ELSE NaiveSetStartDate(Unwrap(p), r)

StrSetEndDate(s, r) ==
    LET p == ParseDate(s) IN
    IF p = None THEN [req |-> r, res |-> Err("Chrono", <<>>)]
    ELSE NaiveSetEndDate(Unwrap(p), r)

\* dispatch of date.set_start_date(&mut request) on the input's type
SetStartDate(in, r) ==
    IF in.type = "str" THEN StrSetStartDate(in.str, r)
    ELSE NaiveSetStartDate(Unwrap(in.date), r)

SetEndDate(in, r) ==
    IF in.type = "str" THEN StrSetEndDate(in.str, r)
    ELSE NaiveSetEndDate(Unwrap(in.date), r)

Untouched == <<api_key, query, uri, gets, response, result, list_req, archive>>

\* QuandlRequest::limit
limit(n) ==
    /\ pc = "build"
    /\ req' = [req EXCEPT !.limit = Some(n)]
    /\ called' = [called EXCEPT !.limit = Some(n)]
    /\ last' = OkRes
    /\ UNCHANGED <<pc, Untouched>>

\* QuandlRequest::rows
rows(n) ==
    /\ pc = "build"
    /\ req' = [req EXCEPT !.rows = Some(n)]
    /\ called' = [called EXCEPT !.rows = Some(n)]
    /\ last' = OkRes
    /\ UNCHANGED <<pc, Untouched>>

\* QuandlRequest::column_index
column_index(n) ==
    /\ pc = "build"
    /\ req' = [req EXCEPT !.column_index = Some(n)]
    /\ called' = [called EXCEPT !.column_index = Some(n)]
    /\ last' = OkRes
    /\ UNCHANGED <<pc, Untouched>>

\* QuandlRequest::order
order(o) ==
    /\ pc = "build"
    /\ req' = [req EXCEPT !.order = Some(o)]
    /\ called' = [called EXCEPT !.order = Some(o)]
    /\ last' = OkRes
    /\ UNCHANGED <<pc, Untouched>>

\* QuandlRequest::collapse
collapse(c) ==
    /\ pc = "build"
    /\ req' = [req EXCEPT !.collapse = Some(c)]
    /\ called' = [called EXCEPT !.collapse = Some(c)]
    /\ last' = OkRes
    /\ UNCHANGED <<pc, Untouched>>

\* QuandlRequest::transform
transform(t) ==
    /\ pc = "build"
    /\ req' = [req EXCEPT !.transform = Some(t)]
    /\ called' = [called EXCEPT !.transform = Some(t)]
    /\ last' = OkRes
    /\ UNCHANGED <<pc, Untouched>>

\* QuandlRequest::start_date: consumes the request; on Err the request is dropped
start_date(in) ==
    /\ pc = "build"
    /\ LET out == SetStartDate(in, req) IN
        /\ req' = out.req
        /\ last' = out.res
        /\ called' = IF out.res.kind = "Ok"
                     THEN [called EXCEPT !.start_date = IF in.type = "str" THEN ParseDate(in.str) ELSE in.date]
                     ELSE called
        /\ pc' = IF out.res.kind = "Ok" THEN "build" ELSE "dropped"
    /\ UNCHANGED Untouched

\* QuandlRequest::end_date: consumes the request; on Err the request is dropped
end_date(in) ==
    /\ pc = "build"
    /\ LET out == SetEndDate(in, req) IN
        /\ req' = out.req
        /\ last' = out.res
        /\ called' = IF out.res.kind = "Ok"
                     THEN [called EXCEPT !.end_date = IF in.type = "str" THEN ParseDate(in.str) ELSE in.date]
                     ELSE called
        /\ pc' = IF out.res.kind = "Ok" THEN "build" ELSE "dropped"
    /\ UNCHANGED Untouched

\* DateInput::set_start_date called on a &mut request: the caller keeps the request
set_start_date(in) ==
    /\ pc = "build"
    /\ LET out == SetStartDate(in, req) IN
        /\ req' = out.req
        /\ last' = out.res
        /\ called' = IF out.res.kind = "Ok"
                     THEN [called EXCEPT !.start_date = IF in.type = "str" THEN ParseDate(in.str) ELSE in.date]
                     ELSE called
    /\ UNCHANGED <<pc, Untouched>>

\* DateInput::set_end_date called on a &mut request: the caller keeps the request
set_end_date(in) ==
    /\ pc = "build"
    /\ LET out == SetEndDate(in, req) IN
        /\ req' = out.req
        /\ last' = out.res
        /\ called' = IF out.res.kind = "Ok"
                     THEN [called EXCEPT !.end_date = IF in.type = "str" THEN ParseDate(in.str) ELSE in.date]
                     ELSE called
    /\ UNCHANGED <<pc, Untouched>>

-----------------------------------------------------------------------------
\* URL serialization

\* const QUANDL_BASE_URL = "https://www.quandl.com/api/v3/datasets"
QUANDL_BASE_URL ==
    <<"h","t","t","p","s",":","/","/","w","w","w",".","q","u","a","n","d","l",".","c","o","m",
      "/","a","p","i","/","v","3","/","d","a","t","a","s","e","t","s">>

\* Display for Order
OrderToString(o) ==
    CASE o = "Asc" -> <<"a","s","c">>
      [] o = "Desc" -> <<"d","e","s","c">>

\* Display for Collapse
CollapseToString(c) ==
    CASE c = "Daily" -> <<"d","a","i","l","y">>
      [] c = "Weekly" -> <<"w","e","e","k","l","y">>
      [] c = "Monthly" -> <<"m","o","n","t","h","l","y">>
      [] c = "Quarterly" -> <<"q","u","a","r","t","e","r","l","y">>
      [] c = "Annual" -> <<"a","n","n","u","a","l">>

\* a Display for Transform whose Rdiff arm was copied from Diff
TransformToStringCopied(t) ==
    CASE t = "Diff" -> <<"d","i","f","f">>
      [] t = "Rdiff" -> <<"d","i","f","f">>
      [] t = "Cumul" -> <<"c","u","m","u","l">>
      [] t = "Normalize" -> <<"n","o","r","m","a","l","i","z","e">>

\* Display for Transform
TransformToString(t) ==
    CASE t = "Diff" -> <<"d","i","f","f">>
      [] t = "Rdiff" -> <<"r","d","i","f","f">>
      [] t = "Cumul" -> <<"c","u","m","u","l">>
      [] t = "Normalize" -> <<"n","o","r","m","a","l","i","z","e">>

\* value.to_string() under the Option, per field type
ShowString(o) == o

ShowU64(o) == IF IsSome(o) THEN Some(U64ToString(Unwrap(o))) ELSE None

ShowDate(o) == IF IsSome(o) THEN Some(DateToString(Unwrap(o))) ELSE None

ShowOrder(o) == IF IsSome(o) THEN Some(OrderToString(Unwrap(o))) ELSE None

ShowCollapse(o) == IF IsSome(o) THEN Some(CollapseToString(Unwrap(o))) ELSE None

ShowTransform(o) == IF IsSome(o) THEN Some(TransformToString(Unwrap(o))) ELSE None

\* fn set_query_pair: push (key, value.to_string()) when the option is Some
\* (the option comes in already shown, by the Show operators above)
set_query_pair(q, key, option) ==
    IF IsSome(option) THEN Append(q, <<key, Unwrap(option)>>) ELSE q

\* a get_uri that pushes order first and the three enums before the dates
QueryPairsEnumsFirst(k, r) ==
    LET q1 == set_query_pair(<<>>, <<"a","p","i","_","k","e","y">>, ShowString(k))
        q2 == set_query_pair(q1, <<"o","r","d","e","r">>, ShowOrder(r.order))
        q3 == set_query_pair(q2, <<"l","i","m","i","t">>, ShowU64(r.limit))
        q4 == set_query_pair(q3, <<"c","o","l","l","a","p","s","e">>, ShowCollapse(r.collapse))
        q5 == set_query_pair(q4, <<"r","o","w","s">>, ShowU64(r.rows))
        q6 == set_query_pair(q5, <<"c","o","l","u","m","n","_","i","n","d","e","x">>,
                             ShowU64(r.column_index))
        q7 == set_query_pair(q6, <<"t","r","a","n","s","f","o","r","m">>,
                             ShowTransform(r.transform))
        q8 == set_query_pair(q7, <<"s","t","a","r","t","_","d","a","t","e">>,
                             ShowDate(r.start_date))
    IN  set_query_pair(q8, <<"e","n","d","_","d","a","t","e">>, ShowDate(r.end_date))

\* the Vec get_uri fills, in the order of its nine set_query_pair calls
QueryPairs(k, r) ==
    LET q1 == set_query_pair(<<>>, <<"a","p","i","_","k","e","y">>, ShowString(k))
        q2 == set_query_pair(q1, <<"l","i","m","i","t">>, ShowU64(r.limit))
        q3 == set_query_pair(q2, <<"r","o","w","s">>, ShowU64(r.rows))
        q4 == set_query_pair(q3, <<"c","o","l","u","m","n","_","i","n","d","e","x">>,
                             ShowU64(r.column_index))
        q5 == set_query_pair(q4, <<"s","t","a","r","t","_","d","a","t","e">>,
                             ShowDate(r.start_date))
        q6 == set_query_pair(q5, <<"e","n","d","_","d","a","t","e">>, ShowDate(r.end_date))
        q7 == set_query_pair(q6, <<"o","r","d","e","r">>, ShowOrder(r.order))
        q8 == set_query_pair(q7, <<"c","o","l","l","a","p","s","e">>, ShowCollapse(r.collapse))
    IN  set_query_pair(q8, <<"t","r","a","n","s","f","o","r","m">>, ShowTransform(r.transform))

\* the text get_uri formats: base/database/dataset/data.json, then ?k=v&k=v...
UriText(k, r) ==
    LET path == QUANDL_BASE_URL \o <<"/">> \o r.database_code \o <<"/">> \o r.dataset_code
                    \o <<"/","d","a","t","a",".","j","s","o","n">>
        q == QueryPairs(k, r)
        params == [i \in 1..Len(q) |-> q[i][1] \o <<"=">> \o q[i][2]]
    IN  IF Len(q) = 0 THEN path ELSE path \o <<"?">> \o Join(params, <<"&">>)

\* characters hyper::Uri rejects in a path or query
IllegalUriChars == {" ", "<", ">", "^", "{", "}", "|", "\\"}

\* position of the first occurrence of the string sub in s, 0 when there is none
FindSub(s, sub) ==
    LET hits == {i \in 1..(Len(s) - Len(sub) + 1) : SubSeq(s, i, i + Len(sub) - 1) = sub}
    IN  IF hits = {} THEN 0 ELSE CHOOSE i \in hits : \A j \in hits : i <= j

\* str::parse::<hyper::Uri>() : Some(scheme, authority, path, query), or None for
\* an invalid URI.  A '#' ends the path-and-query (the fragment is discarded).
ParseUri(s) ==
    LET t == Split(s, "#")[1]
        i == FindSub(t, <<":","/","/">>)
        rest == SubSeq(t, i + 3, Len(t))
        j == FindChar(rest, "/")
        pq == IF j = 0 THEN <<>> ELSE SubSeq(rest, j, Len(rest))
        q == FindChar(pq, "?")
    IN  IF i <= 1 \/ j = 1 \/ \E n \in 1..Len(t) : t[n] \in IllegalUriChars
        THEN None
        ELSE Some([scheme |-> SubSeq(t, 1, i - 1),
                   authority |-> IF j = 0 THEN rest ELSE SubSeq(rest, 1, j - 1),
                   path |-> IF q = 0 THEN pq ELSE SubSeq(pq, 1, q - 1),
                   query |-> IF q = 0 THEN None ELSE Some(SubSeq(pq, q + 1, Len(pq)))])

\* QuandlRequest::get_uri: the parsed Uri; None stands for the panic of unwrap()
get_uri(k, r) == ParseUri(UriText(k, r))

\* a call of get_uri by the caller (or by run)
GetUri ==
    /\ pc = "build"
    /\ query' = QueryPairs(api_key, req)
    /\ uri' = get_uri(api_key, req)
    /\ pc' = IF get_uri(api_key, req) = None THEN "panic" ELSE "uri"
    /\ UNCHANGED <<called, api_key, req, last, gets, response, result, list_req, archive>>

-----------------------------------------------------------------------------
\* The builder: a session, a request from its factory, setter calls, get_uri

Init ==
    /\ api_key \in ApiKeys
    /\ req = new_request(WIKI, AAPL)
    /\ last = OkRes
    /\ pc = "build"
    /\ query = <<>>
    /\ uri = None
    /\ gets = 0
    /\ response = None
    /\ result = None
    /\ list_req = <<>>
    /\ archive = None
    /\ called = [f \in OptionalFields |-> None]

Next ==
    \/ \E n \in LimitValues : limit(n)
    \/ \E n \in RowsValues : rows(n)
    \/ \E n \in ColumnIndexValues : column_index(n)
    \/ \E o \in Orders : order(o)
    \/ \E c \in Collapses : collapse(c)
    \/ \E t \in Transforms : transform(t)
    \/ \E in \in DateInputs : start_date(in)
    \/ \E in \in DateInputs : end_date(in)
    \/ \E in \in DateInputs : set_start_date(in)
    \/ \E in \in DateInputs : set_end_date(in)
    \/ GetUri

Spec == Init /\ [][Next]_vars

\* The same builder with one variant of each enum and no api key: the date
\* setters under every date input, between calls of the other setters.
InitDates ==
    /\ Init
    /\ api_key = None

NextDates ==
    \/ \E n \in LimitValues : limit(n)
    \/ \E n \in RowsValues : rows(n)
    \/ \E n \in ColumnIndexValues : column_index(n)
    \/ order("Asc")
    \/ collapse("Daily")
    \/ transform("Normalize")
    \/ \E in \in DateInputs : start_date(in)
    \/ \E in \in DateInputs : end_date(in)
    \/ \E in \in DateInputs : set_start_date(in)
    \/ \E in \in DateInputs : set_end_date(in)

SpecDates == InitDates /\ [][NextDates]_vars

\* The builder with two values for every field and no api key: every setter
\* called again on a request where its field already holds another value.
TwiceRows == {1, 2}

TwiceColumns == {25, 26}

TwiceCollapses == {"Daily", "Weekly"}

TwiceTransforms == {"Diff", "Normalize"}

NextTwice ==
    \/ \E n \in LimitValues : limit(n)
    \/ \E n \in TwiceRows : rows(n)
    \/ \E n \in TwiceColumns : column_index(n)
    \/ \E o \in Orders : order(o)
    \/ \E c \in TwiceCollapses : collapse(c)
    \/ \E t \in TwiceTransforms : transform(t)
    \/ \E in \in DateInputs : start_date(in)
    \/ \E in \in DateInputs : end_date(in)

SpecTwice == InitDates /\ [][NextTwice]_vars

-----------------------------------------------------------------------------
\* The data-query executor: QuandlRequest::run

\* hyper::StatusCode::OK
StatusOK == 200

\* the statuses the server answers with
Statuses == {StatusOK, 201, 404}

\* Display for hyper::StatusCode: the code and its canonical reason
StatusToString(st) ==
    U64ToString(st) \o <<" ">> \o
        (CASE st = 200 -> <<"O","K">>
           [] st = 201 -> <<"C","r","e","a","t","e","d">>
           [] st = 404 -> <<"N","o","t"," ","F","o","u","n","d">>)

\* the longest response body received
MaxBodyLen == 3

\* bodies: texts over a digit, the array punctuation, a blank and a character
\* that starts no JSON value
BodyAlphabet == {"1", "[", "]", ",", " ", "x"}

Bodies == UNION {[1..n -> BodyAlphabet] : n \in 0..MaxBodyLen}

\* serde_json::Value, as far as the bodies go: numbers and arrays
JNumber(n) == [t |-> "Number", n |-> n, items |-> <<>>]

JArray(items) == [t |-> "Array", n |-> 0, items |-> items]

JFail == [ok |-> FALSE, val |-> JNumber(0), next |-> 0]

\* first position at or after i that holds no blank (Len(s) + 1 at the end)
SkipWs(s, i) ==
    LET stops == {j \in i..Len(s) : s[j] # " "}
    IN  IF stops = {} THEN Len(s) + 1 ELSE CHOOSE j \in stops : \A k \in stops : j <= k

\* first position at or after i that holds no digit; a leading 0 stands alone
DigitsEnd(s, i) ==
    LET stops == {j \in i..Len(s) : ~IsDigit(s[j])}
    IN  IF s[i] = "0" THEN i + 1
        ELSE IF stops = {} THEN Len(s) + 1 ELSE CHOOSE j \in stops : \A k \in stops : j <= k

\* serde_json's value parser from position i: [ok, val, next]
RECURSIVE ParseValue(_, _), ParseElements(_, _, _)
ParseValue(s, i) ==
    LET j == SkipWs(s, i) IN
    IF j > Len(s) THEN JFail
    ELSE IF IsDigit(s[j])
    THEN LET e == DigitsEnd(s, j)
         IN  [ok |-> TRUE, val |-> JNumber(ParseDigits(SubSeq(s, j, e - 1))), next |-> e]
    ELSE IF s[j] = "["
    THEN LET k == SkipWs(s, j + 1)
         IN  IF k <= Len(s) /\ s[k] = "]"
             THEN [ok |-> TRUE, val |-> JArray(<<>>), next |-> k + 1]
             ELSE ParseElements(s, j + 1, <<>>)
    ELSE JFail

\* the elements of an array after '[' or ',', up to the closing ']'
ParseElements(s, i, acc) ==
    LET v == ParseValue(s, i) IN
    IF ~v.ok THEN JFail
    ELSE LET k == SkipWs(s, v.next) IN
         IF k > Len(s) THEN JFail
         ELSE IF s[k] = "," THEN ParseElements(s, k + 1, Append(acc, v.val))
         ELSE IF s[k] = "]"
         THEN [ok |-> TRUE, val |-> JArray(Append(acc, v.val)), next |-> k + 1]
         ELSE JFail

\* serde_json::from_reader: one value, then nothing but blanks; None for an Err
ParseJson(s) ==
    LET v == ParseValue(s, 1) IN
    IF v.ok /\ SkipWs(s, v.next) > Len(s) THEN Some(v.val) ELSE None

\* Debug for serde_json::Value ({:?})
RECURSIVE DebugJson(_)
DebugJson(v) ==
    IF v.t = "Number" THEN <<"N","u","m","b","e","r","(">> \o U64ToString(v.n) \o <<")">>
    ELSE <<"A","r","r","a","y","(","[">>
            \o Join([i \in 1..Len(v.items) |-> DebugJson(v.items[i])], <<",", " ">>)
            \o <<"]",")">>

\* what run returns: Ok(data), or an Error with its message
RunOk(data) == [kind |-> "Ok", msg |-> <<>>, data |-> Some(data)]

RunErr(kind, msg) == [kind |-> kind, msg |-> msg, data |-> None]

\* a run that treats every status from 200 to 299 as success
RunResultAnySuccess(st, body) ==
    LET data == ParseJson(body) IN
    IF data = None THEN RunErr("SerdeJson", <<>>)
    ELSE IF st \in 200..299 THEN RunOk(Unwrap(data))
    ELSE RunErr("Quandl", StatusToString(st) \o DebugJson(Unwrap(data)))

\* a run that reports the status of a rejected request even when the body of
\* the rejection does not decode
RunResultStatusFirst(st, body) ==
    LET data == ParseJson(body) IN
    IF st = StatusOK
    THEN IF data = None THEN RunErr("SerdeJson", <<>>) ELSE RunOk(Unwrap(data))
    ELSE RunErr("Quandl", StatusToString(st))

\* the match of run on the status, once the body has been aggregated
RunResult(st, body) ==
    LET data == ParseJson(body) IN
    IF st = StatusOK
    THEN IF data = None THEN RunErr("SerdeJson", <<>>) ELSE RunOk(Unwrap(data))
    ELSE IF data = None THEN RunErr("SerdeJson", <<>>)
    ELSE RunErr("Quandl",
                <<"q","u","a","n","d","l"," ","r","e","q","u","e","s","t"," ",
                  "f","a","i","l","e","d"," ","w","i","t","h"," ","c","o","d","e"," ","'">>
                    \o StatusToString(st)
                    \o <<"'"," ","a","n","d"," ","r","e","s","p","o","n","s","e",":"," ">>
                    \o DebugJson(Unwrap(data)))

\* a run that issues the GET again when it fails
RunGetFailsRetried ==
    /\ pc = "uri"
    /\ gets' = gets + 1
    /\ UNCHANGED <<called, api_key, req, last, pc, query, uri, response, result, list_req, archive>>

\* run: http_client.get(uri).await fails; the hyper error is returned
RunGetFails ==
    /\ pc = "uri"
    /\ gets' = gets + 1
    /\ result' = Some(RunErr("Hyper", <<>>))
    /\ pc' = "done"
    /\ UNCHANGED <<called, api_key, req, last, query, uri, response, list_req, archive>>

\* run: http_client.get(uri).await answers with a status
RunGet(st) ==
    /\ pc = "uri"
    /\ gets' = gets + 1
    /\ response' = Some([status |-> st, body |-> None])
    /\ pc' = "status"
    /\ UNCHANGED <<called, api_key, req, last, query, uri, result, list_req, archive>>

\* run: hyper::body::aggregate(res).await fails; the hyper error is returned
RunBodyFails ==
    /\ pc = "status"
    /\ result' = Some(RunErr("Hyper", <<>>))
    /\ pc' = "done"
    /\ UNCHANGED <<called, api_key, req, last, query, uri, gets, response, list_req, archive>>

\* run: the body arrives, is decoded, and run returns by the status
RunBody(body) ==
    /\ pc = "status"
    /\ response' = Some([status |-> Unwrap(response).status, body |-> Some(body)])
    /\ result' = Some(RunResult(Unwrap(response).status, body))
    /\ pc' = "done"
    /\ UNCHANGED <<called, api_key, req, last, query, uri, gets, list_req, archive>>

AAAPL == <<"A","A","A","P","L">>

InitRun ==
    /\ api_key \in ApiKeys
    /\ req \in {new_request(WIKI, ds) : ds \in {AAPL, AAAPL}}
    /\ last = OkRes
    /\ pc = "build"
    /\ query = <<>>
    /\ uri = None
    /\ gets = 0
    /\ response = None
    /\ result = None
    /\ list_req = <<>>
    /\ archive = None
    /\ called = [f \in OptionalFields |-> None]

NextRun ==
    \/ \E n \in RowsValues : rows(n)
    \/ GetUri
    \/ RunGetFails
    \/ \E st \in Statuses : RunGet(st)
    \/ RunBodyFails
    \/ \E body \in Bodies : RunBody(body)

SpecRun == InitRun /\ [][NextRun]_vars

-----------------------------------------------------------------------------
\* The code-listing executor: DatasetListCall::run

\* const QUANDL_DATABASE_URL = "https://www.quandl.com/api/v3/databases"
QUANDL_DATABASE_URL ==
    <<"h","t","t","p","s",":","/","/","w","w","w",".","q","u","a","n","d","l",".","c","o","m",
      "/","a","p","i","/","v","3","/","d","a","t","a","b","a","s","e","s">>

\* const SEPARATOR = '/'
SEPARATOR == "/"

\* the url crate's encoding of a path: a blank becomes %20
RECURSIVE PercentEncodePath(_)
PercentEncodePath(s) ==
    IF Len(s) = 0 THEN <<>>
    ELSE (IF Head(s) = " " THEN <<"%","2","0">> ELSE <<Head(s)>>) \o PercentEncodePath(Tail(s))

\* Url::parse: Some(scheme, host, path, query, fragment), or None for a
\* ParseError (no scheme, or an empty host).  '?' starts the query and '#' the
\* fragment; the path is percent-encoded.
UrlParse(s) ==
    LET i == FindSub(s, <<":","/","/">>)
        rest == SubSeq(s, i + 3, Len(s))
        h == FindChar(rest, "#")
        noFrag == IF h = 0 THEN rest ELSE SubSeq(rest, 1, h - 1)
        q == FindChar(noFrag, "?")
        noQuery == IF q = 0 THEN noFrag ELSE SubSeq(noFrag, 1, q - 1)
        j == FindChar(noQuery, "/")
    IN  IF i <= 1 \/ j = 1 \/ Len(noQuery) = 0
        THEN None
        ELSE Some([scheme |-> SubSeq(s, 1, i - 1),
                   host |-> IF j = 0 THEN noQuery ELSE SubSeq(noQuery, 1, j - 1),
                   path |-> IF j = 0 THEN <<"/">>
                            ELSE PercentEncodePath(SubSeq(noQuery, j, Len(noQuery))),
                   query |-> IF q = 0 THEN None ELSE Some(SubSeq(noFrag, q + 1, Len(noFrag))),
                   fragment |-> IF h = 0 THEN None ELSE Some(SubSeq(rest, h + 1, Len(rest)))])

\* DatasetListCall::get_url: base/database_code/codes.csv, parsed
get_url(database_code) ==
    UrlParse(QUANDL_DATABASE_URL \o <<"/">> \o database_code
                 \o <<"/","c","o","d","e","s",".","c","s","v">>)

\* the DatasetCode records run returns, or the Error
ListOk(records) == [kind |-> "Ok", msg |-> <<>>, records |-> Some(records)]

ListErr(kind, msg) == [kind |-> kind, msg |-> msg, records |-> None]

\* an entry-count check that only rejects the empty archive
EntryCountErrorIfEmpty(n) ==
    IF n < 1
    THEN Some(ListErr("Quandl",
            <<"E","x","p","e","c","t","e","d"," ","o","n","e"," ","f","i","l","e"," ",
              "i","n"," ","z","i","p"," ","a","r","c","h","i","v","e",","," ",
              "f","o","u","n","d",":"," ">> \o U64ToString(n)))
    ELSE None

\* an entry-count check that only rejects archives of several entries
EntryCountErrorIfSeveral(n) ==
    IF n > 1
    THEN Some(ListErr("Quandl",
            <<"E","x","p","e","c","t","e","d"," ","o","n","e"," ","f","i","l","e"," ",
              "i","n"," ","z","i","p"," ","a","r","c","h","i","v","e",","," ",
              "f","o","u","n","d",":"," ">> \o U64ToString(n)))
    ELSE None

\* run: if zip.len() != 1, the error returned
EntryCountError(n) ==
    IF n # 1
    THEN Some(ListErr("Quandl",
            <<"E","x","p","e","c","t","e","d"," ","o","n","e"," ","f","i","l","e"," ",
              "i","n"," ","z","i","p"," ","a","r","c","h","i","v","e",","," ",
              "f","o","u","n","d",":"," ">> \o U64ToString(n)))
    ELSE None

\* what the Csv iterator yields for a line: an error, or a row of columns
CsvErrRow == [ok |-> FALSE, cols |-> <<>>]

CsvRow(cols) == [ok |-> TRUE, cols |-> cols]

\* a closure that takes the piece after the first separator as the code
DecodeRowSecondPiece(row) ==
    IF ~row.ok THEN ListErr("Csv", <<>>)
    ELSE IF Len(row.cols) < 2 THEN ListErr("Csv", <<>>)
    ELSE LET db_with_code == row.cols[1]
             desc == row.cols[2]
             pieces == Split(db_with_code, SEPARATOR)
         IN  IF FindChar(db_with_code, SEPARATOR) # 0
             THEN ListOk([code |-> pieces[2], desc |-> desc])
             ELSE ListErr("Quandl",
                     <<"e","r","r","o","r",":"," ","'","/","'"," ","n","o","t"," ",
                       "f","o","u","n","d"," ","i","n"," ","'">> \o db_with_code \o <<"'">>)

\* the closure of run's map on one row: Ok(DatasetCode) or Err
DecodeRow(row) ==
    IF ~row.ok THEN ListErr("Csv", <<>>)
    ELSE IF Len(row.cols) < 2 THEN ListErr("Csv", <<>>)
    ELSE LET db_with_code == row.cols[1]
             desc == row.cols[2]
             pieces == Split(db_with_code, SEPARATOR)
         IN  IF FindChar(db_with_code, SEPARATOR) # 0
             THEN ListOk([code |-> pieces[Len(pieces)], desc |-> desc])
             ELSE ListErr("Quandl",
                     <<"e","r","r","o","r",":"," ","'","/","'"," ","n","o","t"," ",
                       "f","o","u","n","d"," ","i","n"," ","'">> \o db_with_code \o <<"'">>)

\* a collect that keeps the records decoded before the first failing row
RECURSIVE CollectDecoded(_, _)
CollectDecoded(csv_rows, acc) ==
    IF Len(csv_rows) = 0 THEN ListOk(acc)
    ELSE LET r == DecodeRow(Head(csv_rows)) IN
         IF r.kind # "Ok" THEN ListOk(acc)
         ELSE CollectDecoded(Tail(csv_rows), Append(acc, Unwrap(r.records)))

\* .collect() into Result<Vec<DatasetCode>>: the first Err ends the iteration
RECURSIVE Collect(_, _)
Collect(csv_rows, acc) ==
    IF Len(csv_rows) = 0 THEN ListOk(acc)
    ELSE LET r == DecodeRow(Head(csv_rows)) IN
         IF r.kind # "Ok" THEN r
         ELSE Collect(Tail(csv_rows), Append(acc, Unwrap(r.records)))

\* the most entries of a received archive
MaxEntries == 2

\* the most rows of a CSV entry
MaxRows == 2

\* first columns: with one separator, with two, with a trailing one, without
FirstColumns ==
    {<<"Y","C","/","M">>, <<"Y","/","C","/","N">>, <<"Y","/">>, <<"Y","C">>, <<"Z">>, <<>>}

Descs == {<<"d">>, <<"e"," ","f">>}

\* rows: unreadable, of one column only, of a first column and a description
RowValues ==
    {CsvErrRow, CsvRow(<<(<<"Y","/","Q">>)>>)}
        \cup {CsvRow(<<c, d>>) : c \in FirstColumns, d \in Descs}

CsvFiles == UNION {[1..n -> RowValues] : n \in 0..MaxRows}

ListCodes == {<<"Y","C">>, <<"Y"," ","C">>}

\* run: try!(self.get_url()): the parsed url, or the url error is returned
\* and nothing is sent
ListGetUrl ==
    /\ pc = "list"
    /\ IF get_url(list_req) = None
       THEN /\ result' = Some(ListErr("Url", <<>>))
            /\ pc' = "done"
            /\ uri' = uri
       ELSE /\ uri' = get_url(list_req)
            /\ pc' = "url"
            /\ result' = result
    /\ UNCHANGED <<called, api_key, req, last, query, gets, response, list_req, archive>>

\* run: http_client().get(url).send() fails
ListSendFails ==
    /\ pc = "url"
    /\ gets' = gets + 1
    /\ result' = Some(ListErr("Hyper", <<>>))
    /\ pc' = "done"
    /\ UNCHANGED <<called, api_key, req, last, query, uri, response, list_req, archive>>

\* run: http_client().get(url).send() answers (the status is not looked at)
ListSend(st) ==
    /\ pc = "url"
    /\ gets' = gets + 1
    /\ response' = Some([status |-> st, body |-> None])
    /\ pc' = "body"
    /\ UNCHANGED <<called, api_key, req, last, query, uri, result, list_req, archive>>

\* run: res.read_to_end fails
ListReadFails ==
    /\ pc = "body"
    /\ result' = Some(ListErr("Io", <<>>))
    /\ pc' = "done"
    /\ UNCHANGED <<called, api_key, req, last, query, uri, gets, response, list_req, archive>>

\* run: the bytes read are no ZIP archive: ZipArchive::new fails
ListNotZip ==
    /\ pc = "body"
    /\ result' = Some(ListErr("Zip", <<>>))
    /\ pc' = "done"
    /\ UNCHANGED <<called, api_key, req, last, query, uri, gets, response, list_req, archive>>

\* run: the bytes read are an archive of n entries; the count is checked
ListOpenZip(n) ==
    /\ pc = "body"
    /\ archive' = Some([len |-> n, csv |-> None])
    /\ IF EntryCountError(n) # None
       THEN result' = EntryCountError(n) /\ pc' = "done"
       ELSE result' = result /\ pc' = "entry"
    /\ UNCHANGED <<called, api_key, req, last, query, uri, gets, response, list_req>>

\* run: zip.by_index(0) fails
ListEntryFails ==
    /\ pc = "entry"
    /\ result' = Some(ListErr("Zip", <<>>))
    /\ pc' = "done"
    /\ UNCHANGED <<called, api_key, req, last, query, uri, gets, response, list_req, archive>>

\* run: the entry is read as CSV and its rows are mapped and collected
ListDecode(csv_rows) ==
    /\ pc = "entry"
    /\ archive' = Some([len |-> Unwrap(archive).len, csv |-> Some(csv_rows)])
    /\ result' = Some(Collect(csv_rows, <<>>))
    /\ pc' = "done"
    /\ UNCHANGED <<called, api_key, req, last, query, uri, gets, response, list_req>>

InitList ==
    /\ api_key \in ApiKeys
    /\ req = new_request(<<>>, <<>>)
    /\ last = OkRes
    /\ pc = "list"
    /\ query = <<>>
    /\ uri = None
    /\ gets = 0
    /\ response = None
    /\ result = None
    /\ list_req \in ListCodes
    /\ archive = None
    /\ called = [f \in OptionalFields |-> None]

NextList ==
    \/ ListGetUrl
    \/ ListSendFails
    \/ \E st \in Statuses : ListSend(st)
    \/ ListReadFails
    \/ ListNotZip
    \/ \E n \in 0..MaxEntries : ListOpenZip(n)
    \/ ListEntryFails
    \/ \E csv_rows \in CsvFiles : ListDecode(csv_rows)

SpecList == InitList /\ [][NextList]_vars

-----------------------------------------------------------------------------
\* Either executor: an invocation of run on a data request or on a listing request

InitExec == InitRun \/ InitList

NextExec == NextRun \/ NextList

SpecExec == InitExec /\ [][NextExec]_vars

-----------------------------------------------------------------------------
\* Claims about the builder and the serializer

\* the date a start_date / end_date input denotes, None when it does not parse
InputDate(in) == IF in.type = "str" THEN ParseDate(in.str) ELSE in.date

\* C1: in every request reachable by setter calls, if both start_date and
\* end_date are set then start_date <= end_date.
C1_StartNotAfterEnd ==
    (IsSome(req.start_date) /\ IsSome(req.end_date))
        => ~DateGT(Unwrap(req.start_date), Unwrap(req.end_date))

\* C1 witness: a request holding both dates, the start strictly before the end,
\* reached by a successful date setter call.
C1_Witness ==
    /\ pc = "build"
    /\ last.kind = "Ok"
    /\ req.start_date = Some(<<2015, 2, 10>>)
    /\ req.end_date = Some(<<2015, 3, 10>>)

\* whether a call setting `field` to the input, with the other date field
\* holding `other`, must end in a date-range error
RangeViolated(in, isStart, other) ==
    /\ IsSome(InputDate(in))
    /\ IsSome(other)
    /\ IF isStart THEN DateGT(Unwrap(InputDate(in)), Unwrap(other))
                  ELSE DateGT(Unwrap(other), Unwrap(InputDate(in)))

\* C2: a date setter fails with a date-range error exactly when the other date
\* is already set and the pair has start > end; when the input is a date and
\* start <= end (equal included), or the other date is absent, the call
\* succeeds and stores the date.  Both orders of setting the pair are covered.
C2_DateRangeError ==
    [][\A in \in DateInputs :
        /\ (start_date(in) \/ set_start_date(in)) =>
              /\ last'.kind = "Date" <=> RangeViolated(in, TRUE, req.end_date)
              /\ (IsSome(InputDate(in)) /\ ~RangeViolated(in, TRUE, req.end_date))
                    => (last'.kind = "Ok" /\ req'.start_date = InputDate(in))
        /\ (end_date(in) \/ set_end_date(in)) =>
              /\ last'.kind = "Date" <=> RangeViolated(in, FALSE, req.start_date)
              /\ (IsSome(InputDate(in)) /\ ~RangeViolated(in, FALSE, req.start_date))
                    => (last'.kind = "Ok" /\ req'.end_date = InputDate(in))
      ]_vars

\* C2 witness: on a request holding only start_date = 2015-03-10, a call of
\* end_date with an earlier date has failed with a date-range error.
C2_Witness ==
    /\ last.kind = "Date"
    /\ req.start_date = Some(<<2015, 3, 10>>)
    /\ req.end_date = None
    /\ req.limit = None /\ req.rows = None /\ req.column_index = None
    /\ req.order = None /\ req.collapse = None /\ req.transform = None

\* the keys of the key=value pairs of a Uri's query, in order of appearance
UrlKeys(u) ==
    IF u.query = None THEN <<>>
    ELSE LET parts == Split(Unwrap(u.query), "&")
         IN  [i \in 1..Len(parts) |-> Split(parts[i], "=")[1]]

\* the nine fields in the order of the serializer, each with its key, whether
\* it is present and the text of its value
FieldTable(k, r) ==
    << <<(<<"a","p","i","_","k","e","y">>), k>>,
       <<(<<"l","i","m","i","t">>), ShowU64(r.limit)>>,
       <<(<<"r","o","w","s">>), ShowU64(r.rows)>>,
       <<(<<"c","o","l","u","m","n","_","i","n","d","e","x">>), ShowU64(r.column_index)>>,
       <<(<<"s","t","a","r","t","_","d","a","t","e">>), ShowDate(r.start_date)>>,
       <<(<<"e","n","d","_","d","a","t","e">>), ShowDate(r.end_date)>>,
       <<(<<"o","r","d","e","r">>), ShowOrder(r.order)>>,
       <<(<<"c","o","l","l","a","p","s","e">>), ShowCollapse(r.collapse)>>,
       <<(<<"t","r","a","n","s","f","o","r","m">>), ShowTransform(r.transform)>> >>

PresentFields(k, r) ==
    LET IsPresent(f) == IsSome(f[2]) IN SelectSeq(FieldTable(k, r), IsPresent)

PresentKeys(k, r) ==
    LET p == PresentFields(k, r) IN [i \in 1..Len(p) |-> p[i][1]]

\* C3: the URL get_uri builds has one key=value pair per present field, in the
\* order api_key, limit, rows, column_index, start_date, end_date, order,
\* collapse, transform, no key for an absent field, and no query part when no
\* field is present.
C3_KeysOfPresentFields ==
    pc = "uri" =>
        /\ UrlKeys(Unwrap(uri)) = PresentKeys(api_key, req)
        /\ (Len(PresentKeys(api_key, req)) = 0 <=> Unwrap(uri).query = None)

\* the request of the chain order(Asc), limit(10), collapse(Daily), rows(1),
\* column_index(25), transform(Normalize), start_date(2015-02-10),
\* end_date(2015-03-10) on WIKI/AAPL
ChainRequest ==
    [database_code |-> WIKI, dataset_code |-> AAPL,
     limit |-> Some(10), rows |-> Some(1), column_index |-> Some(25),
     start_date |-> Some(<<2015, 2, 10>>), end_date |-> Some(<<2015, 3, 10>>),
     order |-> Some("Asc"), collapse |-> Some("Daily"), transform |-> Some("Normalize")]

\* https://www.quandl.com/api/v3/datasets/WIKI/AAPL/data.json?limit=10&rows=1
\* &column_index=25&start_date=2015-02-10&end_date=2015-03-10&order=asc
\* &collapse=daily&transform=normalize
ChainUri ==
    [scheme |-> <<"h","t","t","p","s">>,
     authority |-> <<"w","w","w",".","q","u","a","n","d","l",".","c","o","m">>,
     path |-> <<"/","a","p","i","/","v","3","/","d","a","t","a","s","e","t","s",
                "/","W","I","K","I","/","A","A","P","L","/","d","a","t","a",".","j","s","o","n">>,
     query |-> Some(
        <<"l","i","m","i","t","=","1","0","&","r","o","w","s","=","1","&",
          "c","o","l","u","m","n","_","i","n","d","e","x","=","2","5","&",
          "s","t","a","r","t","_","d","a","t","e","=","2","0","1","5","-","0","2","-","1","0","&",
          "e","n","d","_","d","a","t","e","=","2","0","1","5","-","0","3","-","1","0","&",
          "o","r","d","e","r","=","a","s","c","&",
          "c","o","l","l","a","p","s","e","=","d","a","i","l","y","&",
          "t","r","a","n","s","f","o","r","m","=","n","o","r","m","a","l","i","z","e">>)]

\* the query text the final field values alone determine: key=value of the
\* present fields in the serializer's order, joined by &
QueryOfValues(k, r) ==
    LET p == PresentFields(k, r)
    IN  IF Len(p) = 0 THEN None
        ELSE Some(Join([i \in 1..Len(p) |-> p[i][1] \o <<"=">> \o Unwrap(p[i][2])], <<"&">>))

\* C4: the URL depends only on the final field values, whatever the order of
\* the setter calls that led to them; the chain order, limit, collapse, rows,
\* column_index, transform, start_date, end_date on WIKI/AAPL without api key
\* gives exactly the URL above.
C4_UrlOfFinalValues ==
    pc = "uri" =>
        /\ Unwrap(uri).query = QueryOfValues(api_key, req)
        /\ (api_key = None /\ req = ChainRequest) => uri = Some(ChainUri)

\* C4 witness: get_uri has run on the request of the chain.
C4_Witness == pc = "uri" /\ api_key = None /\ req = ChainRequest

\* the token each enum variant must serialize to
TokenOf ==
    [Asc |-> <<"a","s","c">>, Desc |-> <<"d","e","s","c">>,
     Daily |-> <<"d","a","i","l","y">>, Weekly |-> <<"w","e","e","k","l","y">>,
     Monthly |-> <<"m","o","n","t","h","l","y">>,
     Quarterly |-> <<"q","u","a","r","t","e","r","l","y">>,
     Annual |-> <<"a","n","n","u","a","l">>,
     Diff |-> <<"d","i","f","f">>, Rdiff |-> <<"r","d","i","f","f">>,
     Cumul |-> <<"c","u","m","u","l">>,
     Normalize |-> <<"n","o","r","m","a","l","i","z","e">>]

\* the values pushed under a key in get_uri's Vec
ValuesUnder(q, key) == {q[i][2] : i \in {j \in 1..Len(q) : q[j][1] = key}}

\* C5: every variant of Order, Collapse and Transform is serialized to its
\* token of the table (asc, desc; daily, weekly, monthly, quarterly, annual;
\* diff, rdiff, cumul, normalize), whose tokens are pairwise distinct.
C5_EnumTokens ==
    pc \in {"uri", "panic"} =>
        /\ \A o \in Orders : req.order = Some(o) =>
              ValuesUnder(query, <<"o","r","d","e","r">>) = {TokenOf[o]}
        /\ \A c \in Collapses : req.collapse = Some(c) =>
              ValuesUnder(query, <<"c","o","l","l","a","p","s","e">>) = {TokenOf[c]}
        /\ \A t \in Transforms : req.transform = Some(t) =>
              ValuesUnder(query, <<"t","r","a","n","s","f","o","r","m">>) = {TokenOf[t]}
        /\ \A a, b \in Orders \cup Collapses \cup Transforms : a # b => TokenOf[a] # TokenOf[b]

\* C5 witness: get_uri has serialized a request holding Desc, Quarterly, Rdiff.
C5_Witness ==
    /\ pc = "uri"
    /\ req.order = Some("Desc")
    /\ req.collapse = Some("Quarterly")
    /\ req.transform = Some("Rdiff")

-----------------------------------------------------------------------------
\* Claims about the data-query executor (checked under SpecRun)

\* the response whose body has arrived, once run has returned
BodyReceived == pc = "done" /\ IsSome(response) /\ IsSome(Unwrap(response).body)

RunStatus == Unwrap(response).status

RunBodyText == Unwrap(Unwrap(response).body)

\* C6: run branches on the status only.  With status OK and a JSON body it
\* returns the decoded value as success; with any other status and a JSON body
\* it fails with a remote-API error whose message holds the status code and
\* the decoded body.  No other status gives a success, and OK never gives a
\* remote-API error.
C6_StatusDecidesOutcome ==
    /\ (BodyReceived /\ ParseJson(RunBodyText) # None) =>
          IF RunStatus = 200
          THEN Unwrap(result) = RunOk(Unwrap(ParseJson(RunBodyText)))
          ELSE /\ Unwrap(result).kind = "Quandl"
               /\ Unwrap(result).data = None
               /\ Contains(Unwrap(result).msg, U64ToString(RunStatus))
               /\ Contains(Unwrap(result).msg, DebugJson(Unwrap(ParseJson(RunBodyText))))
    /\ (BodyReceived /\ RunBodyText = <<"[","1","]">>) =>
          IF RunStatus = 200
          THEN Unwrap(result).data = Some(JArray(<<JNumber(1)>>))
          ELSE RunStatus = 404 =>
                 Unwrap(result).msg =
                    <<"q","u","a","n","d","l"," ","r","e","q","u","e","s","t"," ",
                      "f","a","i","l","e","d"," ","w","i","t","h"," ","c","o","d","e"," ",
                      "'","4","0","4"," ","N","o","t"," ","F","o","u","n","d","'"," ",
                      "a","n","d"," ","r","e","s","p","o","n","s","e",":"," ",
                      "A","r","r","a","y","(","[","N","u","m","b","e","r","(","1",")","]",")">>
    /\ (pc = "done" /\ IsSome(response)) =>
          /\ RunStatus # 200 => Unwrap(result).kind # "Ok"
          /\ RunStatus = 200 => Unwrap(result).kind # "Quandl"

\* C6 witness: run has returned a remote-API error for a 404 whose body is [1].
C6_Witness ==
    /\ BodyReceived
    /\ RunStatus = 404
    /\ RunBodyText = <<"[","1","]">>
    /\ Unwrap(result).kind = "Quandl"

\* bodies that are not JSON: empty, a stray character, an unclosed array, a
\* trailing comma, two values
NotJson ==
    {<<>>, <<"x">>, <<"[","1">>, <<"[",",","]">>, <<"1"," ","1">>, <<"]">>, <<"1","x">>}

\* C7: a body that is not valid JSON makes run return a decode error whatever
\* the status: no success under OK, and no remote-API error under another
\* status.
C7_BadBodyIsDecodeError ==
    BodyReceived =>
        /\ ParseJson(RunBodyText) = None =>
              (Unwrap(result).kind = "SerdeJson" /\ Unwrap(result).data = None)
        /\ RunBodyText \in NotJson => Unwrap(result).kind = "SerdeJson"

\* C7 witness: run has returned a decode error for a 404 whose body is x.
C7_Witness ==
    /\ BodyReceived
    /\ RunStatus = 404
    /\ RunBodyText = <<"x">>
    /\ Unwrap(result).kind = "SerdeJson"

-----------------------------------------------------------------------------
\* Claims about setting a field again (checked under SpecTwice)

\* the request with one of its optional fields absent
Absent(r, field) == [r EXCEPT ![field] = None]

\* C12: a setter called on a request whose field is already set succeeds
\* exactly when the same call succeeds on that request with the field absent
\* (the six plain setters always), returns the same result, and leaves the
\* request that call would leave: the field holds the new value and its old
\* value has no influence.
C12_OverwriteIgnoresOld ==
    [][/\ \A n \in LimitValues : (limit(n) /\ IsSome(req.limit)) =>
              /\ last'.kind = "Ok" /\ req'.limit = Some(n)
              /\ req' = [Absent(req, "limit") EXCEPT !.limit = Some(n)]
       /\ \A n \in TwiceRows : (rows(n) /\ IsSome(req.rows)) =>
              /\ last'.kind = "Ok" /\ req'.rows = Some(n)
              /\ req' = [Absent(req, "rows") EXCEPT !.rows = Some(n)]
       /\ \A n \in TwiceColumns : (column_index(n) /\ IsSome(req.column_index)) =>
              /\ last'.kind = "Ok" /\ req'.column_index = Some(n)
              /\ req' = [Absent(req, "column_index") EXCEPT !.column_index = Some(n)]
       /\ \A o \in Orders : (order(o) /\ IsSome(req.order)) =>
              /\ last'.kind = "Ok" /\ req'.order = Some(o)
              /\ req' = [Absent(req, "order") EXCEPT !.order = Some(o)]
       /\ \A c \in TwiceCollapses : (collapse(c) /\ IsSome(req.collapse)) =>
              /\ last'.kind = "Ok" /\ req'.collapse = Some(c)
              /\ req' = [Absent(req, "collapse") EXCEPT !.collapse = Some(c)]
       /\ \A t \in TwiceTransforms : (transform(t) /\ IsSome(req.transform)) =>
              /\ last'.kind = "Ok" /\ req'.transform = Some(t)
              /\ req' = [Absent(req, "transform") EXCEPT !.transform = Some(t)]
       /\ \A in \in DateInputs :
              /\ (start_date(in) /\ IsSome(req.start_date)) =>
                    LET out == SetStartDate(in, Absent(req, "start_date")) IN
                    /\ last' = out.res
                    /\ last'.kind = "Ok" =>
                          (req' = out.req /\ req'.start_date = InputDate(in))
              /\ (end_date(in) /\ IsSome(req.end_date)) =>
                    LET out == SetEndDate(in, Absent(req, "end_date")) IN
                    /\ last' = out.res
                    /\ last'.kind = "Ok" =>
                          (req' = out.req /\ req'.end_date = InputDate(in))
      ]_vars

\* C12 witness: on a request holding start_date = end_date = 2015-03-10,
\* a call setting a date again has failed with the date-range error, as the
\* same call fails when the field it sets is absent.
C12_Witness ==
    /\ pc = "dropped"
    /\ last.kind = "Date"
    /\ req.start_date = Some(<<2015, 3, 10>>)
    /\ req.end_date = Some(<<2015, 3, 10>>)
    /\ called.limit = Some(12)

-----------------------------------------------------------------------------
\* Claims about what the factory and the setters leave in a request

\* a step of one of the six setters that take a plain value
PlainSetterStep ==
    \/ \E n \in LimitValues : limit(n)
    \/ \E n \in RowsValues : rows(n)
    \/ \E n \in ColumnIndexValues : column_index(n)
    \/ \E o \in Orders : order(o)
    \/ \E c \in Collapses : collapse(c)
    \/ \E t \in Transforms : transform(t)

\* C13: the request of the factory has the two codes as given and every
\* optional field absent; after any sequence of setter calls the codes are
\* still those, and each optional field is present exactly when its setter
\* was called successfully, with the value of the last such call.  A step
\* changes at most one field and never the session, and the six plain setters
\* never fail.
C13_FieldsAreLastCalls ==
    /\ [](/\ req.database_code = WIKI
          /\ req.dataset_code = AAPL
          /\ \A f \in OptionalFields : req[f] = called[f])
    /\ [][/\ api_key' = api_key
          /\ Cardinality({f \in OptionalFields : req'[f] # req[f]}) <= 1
          /\ PlainSetterStep => (last'.kind = "Ok" /\ pc' = "build")
         ]_vars

\* C13 witness: after successful calls of limit, end_date and transform the
\* request holds exactly those three fields.
C13_Witness ==
    /\ pc = "build"
    /\ last.kind = "Ok"
    /\ req = [new_request(WIKI, AAPL) EXCEPT !.limit = Some(10),
                                            !.end_date = Some(<<2015, 2, 10>>),
                                            !.transform = Some("Rdiff")]
    /\ called.limit = Some(10)
    /\ called.start_date = None

-----------------------------------------------------------------------------
\* Claims about date strings (checked under SpecDates)

\* the days of the months of 2015, the year of the inputs
DaysOf2015 == <<31, 28, 31, 30, 31, 30, 31, 31, 30, 31, 30, 31>>

\* the yyyy-mm-dd texts of the days of that year
CalendarTexts ==
    UNION {{DateToString(<<2015, m, d>>) : d \in 1..DaysOf2015[m]} : m \in 1..12}

\* a step of a date setter, at either level, on the input
DateSetterStep(in) ==
    start_date(in) \/ set_start_date(in) \/ end_date(in) \/ set_end_date(in)

\* C14: a date setter given a string that is no yyyy-mm-dd calendar date
\* fails with the parse error, whatever the other date field holds, and never
\* with the date-range error; the parse error is raised for such strings
\* only, and the date-range error only for a string that is a calendar date
\* or for a pre-parsed date.
C14_ParseBeforeRange ==
    [][\A in \in DateInputs : DateSetterStep(in) =>
          /\ (in.type = "str" /\ in.str \notin CalendarTexts) => last'.kind = "Chrono"
          /\ last'.kind = "Chrono" => (in.type = "str" /\ in.str \notin CalendarTexts)
          /\ last'.kind = "Date" => (in.type = "naive" \/ in.str \in CalendarTexts)
      ]_vars

\* C14 witness: on a request holding only end_date = 2015-02-10, a date
\* setter given an unparsable string has failed with the parse error.
C14_Witness ==
    /\ pc = "build"
    /\ last.kind = "Chrono"
    /\ req = [new_request(WIKI, AAPL) EXCEPT !.end_date = Some(<<2015, 2, 10>>)]

\* C17: when DateInput::set_start_date or set_end_date, on a string or on a
\* NaiveDate, returns an error, the error is the parse error or the date-range
\* error and every field of the request has the value it had before the call,
\* so that start_date <= end_date still holds and the caller, who keeps the
\* request, goes on from the request as it was.
C17_FailedDateLeavesRequest ==
    [][\A in \in DateInputs :
          ((set_start_date(in) \/ set_end_date(in)) /\ last'.kind # "Ok") =>
              /\ last'.kind \in {"Chrono", "Date"}
              /\ req' = req
              /\ called' = called
              /\ pc' = "build"
              /\ (IsSome(req'.start_date) /\ IsSome(req'.end_date))
                    => ~DateGT(Unwrap(req'.start_date), Unwrap(req'.end_date))
      ]_vars

\* C17 witness: on a request holding limit = 10 and both dates equal to
\* 2015-03-10, a call of the trait has failed with the date-range error and
\* the caller still holds that request.
C17_Witness ==
    /\ pc = "build"
    /\ last.kind = "Date"
    /\ req = [new_request(WIKI, AAPL) EXCEPT !.limit = Some(10),
                                            !.start_date = Some(<<2015, 3, 10>>),
                                            !.end_date = Some(<<2015, 3, 10>>)]

-----------------------------------------------------------------------------
\* Claims about the code-listing executor (checked under SpecList)

\* the archive run opened, once run has returned
ListDone == pc = "done" /\ IsSome(archive)

ExpectedOneFile ==
    <<"E","x","p","e","c","t","e","d"," ","o","n","e"," ","f","i","l","e"," ",
      "i","n"," ","z","i","p"," ","a","r","c","h","i","v","e",","," ",
      "f","o","u","n","d",":"," ">>

\* C8: an archive of N # 1 entries makes run fail with a remote-API error whose
\* message states N; no CSV is decoded and no records are returned.  With one
\* entry the count is accepted and run goes on to that entry.
C8_ExactlyOneEntry ==
    IsSome(archive) =>
        IF Unwrap(archive).len # 1
        THEN /\ pc = "done"
             /\ Unwrap(result).kind = "Quandl"
             /\ Unwrap(result).msg = ExpectedOneFile \o U64ToString(Unwrap(archive).len)
             /\ Unwrap(result).records = None
             /\ Unwrap(archive).csv = None
        ELSE \/ pc = "entry" /\ result = None
             \/ pc = "done" /\ Unwrap(result).msg # ExpectedOneFile \o <<"1">>

\* C8 witness: run has returned the count error for an archive of two entries.
C8_Witness ==
    /\ ListDone
    /\ Unwrap(archive).len = 2
    /\ Unwrap(result).kind = "Quandl"

\* C9 as claimed: an empty archive, or an empty CSV entry, gives an empty
\* sequence of records and no error.
C9_EmptyGivesEmptySequence ==
    (ListDone /\ (Unwrap(archive).len = 0 \/ Unwrap(archive).csv = Some(<<>>)))
        => Unwrap(result) = ListOk(<<>>)

\* C9 amended: an empty CSV entry of a one-entry archive gives an empty
\* sequence of records and no error; an archive without entries gives the
\* remote-API error of the entry count.
C9_EmptyCsvGivesEmptySequence ==
    ListDone =>
        /\ Unwrap(archive).csv = Some(<<>>) => Unwrap(result) = ListOk(<<>>)
        /\ Unwrap(archive).len = 0 =>
              Unwrap(result) = ListErr("Quandl", ExpectedOneFile \o <<"0">>)

\* C9 witness: run has returned for a one-entry archive whose CSV has no rows.
C9_Witness ==
    /\ ListDone
    /\ Unwrap(archive).len = 1
    /\ Unwrap(archive).csv = Some(<<>>)

\* a row whose first column is there and holds no '/'
NoSeparator(row) == row.ok /\ Len(row.cols) >= 1 /\ FindChar(row.cols[1], "/") = 0

NotFoundIn(value) ==
    <<"e","r","r","o","r",":"," ","'","/","'"," ","n","o","t"," ",
      "f","o","u","n","d"," ","i","n"," ","'">> \o value \o <<"'">>

\* the rows of the decoded entry
DecodedRows == Unwrap(Unwrap(archive).csv)

\* C10 as claimed: every row, at any position, whose first column holds no '/'
\* makes run fail with a remote-API error naming that row's value, and no
\* records are returned.
C10_AnyBadRowIsNamed ==
    (ListDone /\ IsSome(Unwrap(archive).csv)) =>
        \A i \in 1..Len(DecodedRows) :
            NoSeparator(DecodedRows[i]) =>
                Unwrap(result) = ListErr("Quandl", NotFoundIn(DecodedRows[i].cols[1]))

\* a row the Csv iterator or decode::<(String, String)> rejects
Undecodable(row) == ~row.ok \/ Len(row.cols) < 2

\* the first row that is undecodable or has no '/' in its first column
FirstFailing(csv_rows) ==
    CHOOSE i \in 1..Len(csv_rows) :
        /\ Undecodable(csv_rows[i]) \/ NoSeparator(csv_rows[i])
        /\ \A j \in 1..(i - 1) : ~(Undecodable(csv_rows[j]) \/ NoSeparator(csv_rows[j]))

\* C10 amended: if any row has a first column without '/', run fails and
\* returns no records, those of the well-formed rows before it included; the
\* error is the remote-API error naming the first such value when every row
\* up to it decodes, and the CSV error of the first undecodable row otherwise.
C10_BadRowAbortsListing ==
    (ListDone /\ IsSome(Unwrap(archive).csv)
        /\ \E i \in 1..Len(DecodedRows) : NoSeparator(DecodedRows[i])) =>
            LET f == DecodedRows[FirstFailing(DecodedRows)] IN
            /\ Unwrap(result).records = None
            /\ IF Undecodable(f)
               THEN Unwrap(result).kind = "Csv"
               ELSE Unwrap(result) = ListErr("Quandl", NotFoundIn(f.cols[1]))

\* C10 witness: run has failed on a second row without '/', after a
\* well-formed first row.
C10_Witness ==
    /\ ListDone
    /\ Unwrap(archive).csv =
          Some(<<CsvRow(<<(<<"Y","C","/","M">>), (<<"d">>)>>),
                 CsvRow(<<(<<"Y","C">>), (<<"d">>)>>)>>)
    /\ Unwrap(result).kind = "Quandl"

\* a row that is read and whose first column holds a '/'
HasSeparator(row) == row.ok /\ Len(row.cols) >= 1 /\ FindChar(row.cols[1], "/") # 0

\* the position of the last '/' of a text, 0 when it has none
LastSlash(s) ==
    IF \E i \in 1..Len(s) : s[i] = "/"
    THEN CHOOSE i \in 1..Len(s) : s[i] = "/" /\ \A j \in (i + 1)..Len(s) : s[j] # "/"
    ELSE 0

\* the part of a text after its last '/'
AfterLastSlash(s) == SubSeq(s, LastSlash(s) + 1, Len(s))

\* C11 as claimed: when every row of the entry has a '/' in its first column,
\* run returns one record per row, in row order, the i-th with the part of the
\* i-th first column after its last '/' as code and the second column as desc.
C11_RecordPerRow ==
    (ListDone /\ IsSome(Unwrap(archive).csv)
        /\ \A i \in 1..Len(DecodedRows) : HasSeparator(DecodedRows[i])) =>
            /\ Unwrap(result).kind = "Ok"
            /\ Len(Unwrap(Unwrap(result).records)) = Len(DecodedRows)
            /\ \A i \in 1..Len(DecodedRows) :
                  /\ Unwrap(Unwrap(result).records)[i].code =
                        AfterLastSlash(DecodedRows[i].cols[1])
                  /\ Unwrap(Unwrap(result).records)[i].desc = DecodedRows[i].cols[2]

\* C11 amended: when every row of the entry is read, decodes as two columns
\* and has a '/' in its first column, run returns one record per row, in row
\* order, the i-th with the part of the i-th first column after its last '/'
\* as code and the i-th second column as desc; a row of fewer than two columns
\* makes run fail with the CSV error although its first column has a '/'.
C11_RecordPerDecodedRow ==
    (ListDone /\ IsSome(Unwrap(archive).csv)
        /\ \A i \in 1..Len(DecodedRows) : HasSeparator(DecodedRows[i])) =>
            IF \A i \in 1..Len(DecodedRows) : ~Undecodable(DecodedRows[i])
            THEN /\ Unwrap(result).kind = "Ok"
                 /\ Unwrap(Unwrap(result).records) =
                        [i \in 1..Len(DecodedRows) |->
                            [code |-> AfterLastSlash(DecodedRows[i].cols[1]),
                             desc |-> DecodedRows[i].cols[2]]]
            ELSE /\ Unwrap(result).kind = "Csv"
                 /\ Unwrap(result).records = None

\* C11 witness: run has returned two records for two rows, the first with
\* two separators in its first column.
C11_Witness ==
    /\ ListDone
    /\ Unwrap(archive).csv =
          Some(<<CsvRow(<<(<<"Y","/","C","/","N">>), (<<"e"," ","f">>)>>),
                 CsvRow(<<(<<"Y","C","/","M">>), (<<"d">>)>>)>>)
    /\ Unwrap(result) =
          ListOk(<<[code |-> <<"N">>, desc |-> <<"e"," ","f">>],
                   [code |-> <<"M">>, desc |-> <<"d">>]>>)

-----------------------------------------------------------------------------
\* Claims about both executors (checked under SpecExec)

\* run has returned to its caller
RunReturned == pc = "done" /\ IsSome(result)

\* the invocation is one of the data-query run
IsDataRun == list_req = <<>>

\* C15: an invocation of run, of either executor, whose URL was built issues
\* exactly one HTTP GET: never a second one, and one by the time it has a
\* response or returns, whatever it returns.  When the GET fails, or the body
\* of a data query cannot be received, run returns the transport error.
C15_OneGetPerRun ==
    /\ gets <= 1
    /\ (RunReturned \/ IsSome(response)) => gets = 1
    /\ (RunReturned /\ response = None) => Unwrap(result).kind = "Hyper"
    /\ (RunReturned /\ IsDataRun /\ IsSome(response) /\ Unwrap(response).body = None)
          => Unwrap(result).kind = "Hyper"

\* C15 witness: the one GET of a data query has failed and run has returned
\* the transport error.
C15_Witness ==
    /\ RunReturned
    /\ IsDataRun
    /\ gets = 1
    /\ response = None
    /\ Unwrap(result).kind = "Hyper"

\* C16 as claimed: when the URL built for a request is not a valid URL, run
\* does not abort the program: it returns the url error to its caller and has
\* issued no HTTP request.
C16_InvalidUrlIsTypedFailure ==
    /\ pc # "panic"
    /\ (IsDataRun /\ get_uri(api_key, req) = None /\ pc # "build") =>
          (RunReturned /\ Unwrap(result).kind = "Url" /\ gets = 0)
    /\ (~IsDataRun /\ get_url(list_req) = None /\ pc # "list") =>
          (RunReturned /\ Unwrap(result).kind = "Url" /\ gets = 0)

====
